---- MODULE Spec2Model ----
(***************************************************************************)
(* Model of the ai-input-react submission controller:                      *)
(*   - useRateLimiter  (src/unnamed/part_002, and the variant kept in      *)
(*                      src/src/types.ts lines 243-353),                   *)
(*   - useAudioRecorder (src/src/hooks/useAudioRecorder.ts lines 164-432), *)
(*   - useAiInput       (src/unnamed/part_003).                            *)
(*                                                                         *)
(* Time is counted in ticks of 100 ms, the period of every setInterval in  *)
(* the source.  A React hook is modelled by its committed state, its refs  *)
(* and the values its last render computed (canRequest, requestsRemaining  *)
(* are computed while rendering and captured by the callbacks).  Every     *)
(* handler is one action: the handler's code, then the re-render and the   *)
(* effect passes React runs after it, until nothing changes.               *)
(***************************************************************************)
EXTENDS Integers, Sequences, FiniteSets, TLC

\* ---------------------------------------------------------------- bounds
MaxTime == 3          \* last instant (in ticks) the clock reaches
MaxCooldown == 2      \* largest cooldownMs (ticks) a configuration draws
MaxRequestsCfg == 2   \* largest maxRequests a configuration draws
MaxWindow == 3        \* largest windowMs (ticks) a configuration draws
MaxRecords == 3       \* recordRequest() calls per behaviour
MaxStarts == 2        \* getUserMedia() calls per behaviour
MaxCalls == 2         \* transport calls per behaviour
MaxChunks == 2        \* non-empty chunks one MediaRecorder delivers
MaxOps == 3           \* operations the host invokes per behaviour
MaxTextOps == 5       \* the same, for a host that only types and submits
MaxTextCalls == 3     \* transport calls per behaviour of that host
MaxFaults == 1        \* failures the browser raises per behaviour

Max(a, b) == IF a >= b THEN a ELSE b

\* ----------------------------------------------------------------- state
VARIABLES
    cfg,                 \* configuration record, fixed at construction
    now,                 \* Date.now(), in ticks
    mounted,             \* the component that calls the hook is mounted
    \* useRateLimiter
    requestTimestamps,   \* requestTimestamps.current
    cooldownRemaining,   \* state cooldownRemaining
    cooldownEnd,         \* state cooldownEnd (types.ts variant)
    cooldownTimerRef,    \* TRUE while the cooldown setInterval is live
    startTime,           \* closure variable of the interval callback
    timerTicked,         \* instant the cooldown interval last fired or started
    canRequest,          \* canRequest as computed by the last render
    requestsRemaining,   \* requestsRemaining as computed by the last render
    \* useAiInput
    state,               \* status: idle, recording, loading, success, error, rate-limited
    text,
    error,               \* lastError
    result,              \* lastResult
    pendingAudioSubmitRef,
    \* useAudioRecorder
    isRecording,
    audioBlob,
    recorderError,       \* the recorder hook's own error state
    mediaRecorderRef,    \* id of the MediaRecorder it points to, 0 for null
    streamRef,           \* id of the MediaStream, 0 for null
    audioContextRef,     \* id of the AudioContext, 0 for null
    chunksRef,           \* sequence of chunks
    durationIntervalRef, \* id of the duration interval, 0 for null
    maxDurationTimeoutRef,
    \* the browser
    nextId,              \* getUserMedia() calls made so far; call i creates stream i
    acquiring,           \* getUserMedia() calls not yet settled
    streams,             \* MediaStreams whose tracks are live
    contexts,            \* AudioContexts not closed
    recorders,           \* MediaRecorder i: "none", "recording", "stopping", "inactive"
    emitted,             \* chunks MediaRecorder i has delivered
    durationIntervals,   \* duration intervals not cleared
    durTicked,           \* instant the duration intervals last fired
    timeouts,            \* max-duration timeouts not cleared: <<id, due>>
    calls,               \* transport calls: [kind, input, st]
    \* history (not program state)
    ops,                 \* host operations invoked so far
    faults,              \* failures the browser raised so far
    recorded,            \* instants of every recordRequest() since the last reset
    renderedAt,          \* instant of the last render
    stopRequested,       \* sessions for which the host asked stopRecording while capturing
    cancelled,           \* sessions the host cancelled before their payload arrived
    wasReset,            \* sessions the host reset before their payload arrived
    autoStopped,         \* sessions stopped by the max-duration timeout
    errored,             \* sessions whose recorder raised an error event
    lastOp,              \* the host operation of the last step, "none" if it was none
    onSuccessLog,        \* arguments of every onSuccess call
    onErrorLog,          \* arguments of every onError call
    onTranscriptionLog,  \* arguments of every onTranscription call
    finalized            \* finalized[i]: payload of session i once its stop event ran

rlvars == <<cfg, now, requestTimestamps, cooldownRemaining, cooldownEnd,
            cooldownTimerRef, startTime, timerTicked, canRequest,
            requestsRemaining, recorded, renderedAt>>

vars == <<cfg, now, mounted, requestTimestamps, cooldownRemaining, cooldownEnd,
          cooldownTimerRef, startTime, timerTicked, canRequest,
          requestsRemaining, state, text, error, result, pendingAudioSubmitRef,
          isRecording, audioBlob, recorderError, mediaRecorderRef, streamRef,
          audioContextRef, chunksRef, durationIntervalRef, maxDurationTimeoutRef,
          nextId, acquiring, streams, contexts, recorders, emitted,
          durationIntervals, durTicked, timeouts, calls, ops, faults, recorded,
          renderedAt,
          stopRequested, cancelled, wasReset, autoStopped, errored,
          lastOp, onSuccessLog, onErrorLog, onTranscriptionLog,
          finalized>>

Ids == 1..MaxStarts

\* null for a Blob, and a Blob: the session whose stop handler built it and
\* the chunks it was built from.
NoBlob == [sess |-> 0, data |-> <<>>]
Blob(i, chunks) == [sess |-> i, data |-> chunks]

\* The state as one record, the form the handlers below transform.
Cur ==
    [now |-> now,
     mounted |-> mounted,
     requestTimestamps |-> requestTimestamps,
     cooldownRemaining |-> cooldownRemaining,
     cooldownEnd |-> cooldownEnd,
     cooldownTimerRef |-> cooldownTimerRef,
     startTime |-> startTime,
     timerTicked |-> timerTicked,
     canRequest |-> canRequest,
     requestsRemaining |-> requestsRemaining,
     state |-> state,
     text |-> text,
     error |-> error,
     result |-> result,
     pendingAudioSubmitRef |-> pendingAudioSubmitRef,
     isRecording |-> isRecording,
     audioBlob |-> audioBlob,
     recorderError |-> recorderError,
     mediaRecorderRef |-> mediaRecorderRef,
     streamRef |-> streamRef,
     audioContextRef |-> audioContextRef,
     chunksRef |-> chunksRef,
     durationIntervalRef |-> durationIntervalRef,
     maxDurationTimeoutRef |-> maxDurationTimeoutRef,
     nextId |-> nextId,
     acquiring |-> acquiring,
     streams |-> streams,
     contexts |-> contexts,
     recorders |-> recorders,
     emitted |-> emitted,
     durationIntervals |-> durationIntervals,
     durTicked |-> durTicked,
     timeouts |-> timeouts,
     calls |-> calls,
     ops |-> ops,
     faults |-> faults,
     recorded |-> recorded,
     renderedAt |-> renderedAt,
     stopRequested |-> stopRequested,
     cancelled |-> cancelled,
     wasReset |-> wasReset,
     autoStopped |-> autoStopped,
     errored |-> errored,
     lastOp |-> lastOp,
     onSuccessLog |-> onSuccessLog,
     onErrorLog |-> onErrorLog,
     onTranscriptionLog |-> onTranscriptionLog,
     finalized |-> finalized,
     \* transient, meaningful only while one handler runs:
     forceUpdate |-> FALSE,            \* a state update is waiting for a render
     errorFresh |-> FALSE,             \* the recorder stored a new Error object
     cooldownEndDep |-> cooldownEnd]   \* cooldownEnd the cooldown effect last ran with

Commit(s) ==
    /\ now' = s.now
    /\ mounted' = s.mounted
    /\ requestTimestamps' = s.requestTimestamps
    /\ cooldownRemaining' = s.cooldownRemaining
    /\ cooldownEnd' = s.cooldownEnd
    /\ cooldownTimerRef' = s.cooldownTimerRef
    /\ startTime' = s.startTime
    /\ timerTicked' = s.timerTicked
    /\ canRequest' = s.canRequest
    /\ requestsRemaining' = s.requestsRemaining
    /\ state' = s.state
    /\ text' = s.text
    /\ error' = s.error
    /\ result' = s.result
    /\ pendingAudioSubmitRef' = s.pendingAudioSubmitRef
    /\ isRecording' = s.isRecording
    /\ audioBlob' = s.audioBlob
    /\ recorderError' = s.recorderError
    /\ mediaRecorderRef' = s.mediaRecorderRef
    /\ streamRef' = s.streamRef
    /\ audioContextRef' = s.audioContextRef
    /\ chunksRef' = s.chunksRef
    /\ durationIntervalRef' = s.durationIntervalRef
    /\ maxDurationTimeoutRef' = s.maxDurationTimeoutRef
    /\ nextId' = s.nextId
    /\ acquiring' = s.acquiring
    /\ streams' = s.streams
    /\ contexts' = s.contexts
    /\ recorders' = s.recorders
    /\ emitted' = s.emitted
    /\ durationIntervals' = s.durationIntervals
    /\ durTicked' = s.durTicked
    /\ timeouts' = s.timeouts
    /\ calls' = s.calls
    /\ ops' = s.ops
    /\ faults' = s.faults
    /\ recorded' = s.recorded
    /\ renderedAt' = s.renderedAt
    /\ stopRequested' = s.stopRequested
    /\ cancelled' = s.cancelled
    /\ wasReset' = s.wasReset
    /\ autoStopped' = s.autoStopped
    /\ errored' = s.errored
    /\ lastOp' = s.lastOp
    /\ onSuccessLog' = s.onSuccessLog
    /\ onErrorLog' = s.onErrorLog
    /\ onTranscriptionLog' = s.onTranscriptionLog
    /\ finalized' = s.finalized
    /\ cfg' = cfg

\* The hooks before their first render.
Fresh ==
    [now |-> 0,
     mounted |-> TRUE,
     requestTimestamps |-> <<>>,
     cooldownRemaining |-> 0,
     cooldownEnd |-> 0,
     cooldownTimerRef |-> FALSE,
     startTime |-> 0,
     timerTicked |-> 0,
     canRequest |-> FALSE,
     requestsRemaining |-> 0,
     state |-> "idle",
     text |-> "",
     error |-> "null",
     result |-> "null",
     pendingAudioSubmitRef |-> FALSE,
     isRecording |-> FALSE,
     audioBlob |-> NoBlob,
     recorderError |-> "null",
     mediaRecorderRef |-> 0,
     streamRef |-> 0,
     audioContextRef |-> 0,
     chunksRef |-> <<>>,
     durationIntervalRef |-> 0,
     maxDurationTimeoutRef |-> 0,
     nextId |-> 0,
     acquiring |-> {},
     streams |-> {},
     contexts |-> {},
     recorders |-> [i \in Ids |-> "none"],
     emitted |-> [i \in Ids |-> 0],
     durationIntervals |-> {},
     durTicked |-> 0,
     timeouts |-> {},
     calls |-> <<>>,
     ops |-> 0,
     faults |-> 0,
     recorded |-> <<>>,
     renderedAt |-> 0,
     stopRequested |-> {},
     cancelled |-> {},
     wasReset |-> {},
     autoStopped |-> {},
     errored |-> {},
     lastOp |-> "none",
     onSuccessLog |-> <<>>,
     onErrorLog |-> <<>>,
     onTranscriptionLog |-> <<>>,
     finalized |-> [i \in Ids |-> NoBlob],
     forceUpdate |-> FALSE,
     errorFresh |-> FALSE,
     cooldownEndDep |-> 0]

\* The variables take the values of record s (used by the initial predicates).
Holds(s) ==
    /\ now = s.now
    /\ mounted = s.mounted
    /\ requestTimestamps = s.requestTimestamps
    /\ cooldownRemaining = s.cooldownRemaining
    /\ cooldownEnd = s.cooldownEnd
    /\ cooldownTimerRef = s.cooldownTimerRef
    /\ startTime = s.startTime
    /\ timerTicked = s.timerTicked
    /\ canRequest = s.canRequest
    /\ requestsRemaining = s.requestsRemaining
    /\ state = s.state
    /\ text = s.text
    /\ error = s.error
    /\ result = s.result
    /\ pendingAudioSubmitRef = s.pendingAudioSubmitRef
    /\ isRecording = s.isRecording
    /\ audioBlob = s.audioBlob
    /\ recorderError = s.recorderError
    /\ mediaRecorderRef = s.mediaRecorderRef
    /\ streamRef = s.streamRef
    /\ audioContextRef = s.audioContextRef
    /\ chunksRef = s.chunksRef
    /\ durationIntervalRef = s.durationIntervalRef
    /\ maxDurationTimeoutRef = s.maxDurationTimeoutRef
    /\ nextId = s.nextId
    /\ acquiring = s.acquiring
    /\ streams = s.streams
    /\ contexts = s.contexts
    /\ recorders = s.recorders
    /\ emitted = s.emitted
    /\ durationIntervals = s.durationIntervals
    /\ durTicked = s.durTicked
    /\ timeouts = s.timeouts
    /\ calls = s.calls
    /\ ops = s.ops
    /\ faults = s.faults
    /\ recorded = s.recorded
    /\ renderedAt = s.renderedAt
    /\ stopRequested = s.stopRequested
    /\ cancelled = s.cancelled
    /\ wasReset = s.wasReset
    /\ autoStopped = s.autoStopped
    /\ errored = s.errored
    /\ lastOp = s.lastOp
    /\ onSuccessLog = s.onSuccessLog
    /\ onErrorLog = s.onErrorLog
    /\ onTranscriptionLog = s.onTranscriptionLog
    /\ finalized = s.finalized

\* A cleanup that drops the oldest timestamp whatever its age.
cleanupTimestamps_DropsOldest(s) ==
    [s EXCEPT !.requestTimestamps = IF @ = <<>> THEN @ ELSE Tail(@)]

\* ------------------------------------------------ useRateLimiter (part_002)
\* cleanupTimestamps: drop the timestamps that left the window.
cleanupTimestamps(s) ==
    [s EXCEPT !.requestTimestamps =
        SelectSeq(@, LAMBDA timestamp : s.now - timestamp < cfg.windowMs)]

\* getRequestsRemaining: the value it returns (it calls cleanupTimestamps first).
getRequestsRemaining(s) ==
    Max(0, cfg.maxRequests - Len(cleanupTimestamps(s).requestTimestamps))

\* const canRequest = cooldownRemaining === 0 && getRequestsRemaining() > 0
canRequestA(s) ==
    s.cooldownRemaining = 0 /\ getRequestsRemaining(s) > 0

\* One render of the part_002 hook: canRequest and requestsRemaining are
\* computed from the state, and the timestamps are pruned on the way.
useRateLimiterA(s) ==
    [cleanupTimestamps(s) EXCEPT
        !.canRequest = canRequestA(s),
        !.requestsRemaining = getRequestsRemaining(s),
        !.renderedAt = s.now]

recordRequestA(s) ==
    [s EXCEPT
        !.requestTimestamps = Append(@, s.now),
        !.cooldownRemaining = cfg.cooldownMs,
        !.cooldownTimerRef = TRUE,       \* clearInterval(old); setInterval(..., 100)
        !.startTime = s.now,
        !.timerTicked = s.now,
        !.forceUpdate = TRUE,
        !.recorded = Append(@, s.now)]

\* A callback that reports the cooldown over one period early.
cooldownIntervalA_EarlyExpiry(s) ==
    LET elapsed == s.now - s.startTime
        remaining == Max(0, cfg.cooldownMs - elapsed - 1)
    IN  [s EXCEPT
            !.cooldownRemaining = remaining,
            !.cooldownTimerRef = IF remaining = 0 THEN FALSE ELSE @,
            !.timerTicked = s.now]

\* The setInterval callback started by recordRequest.
cooldownIntervalA(s) ==
    LET elapsed == s.now - s.startTime
        remaining == Max(0, cfg.cooldownMs - elapsed)
    IN  [s EXCEPT
            !.cooldownRemaining = remaining,
            !.cooldownTimerRef = IF remaining = 0 THEN FALSE ELSE @,
            !.timerTicked = s.now]

resetA(s) ==
    [s EXCEPT
        !.requestTimestamps = <<>>,
        !.cooldownRemaining = 0,
        !.cooldownTimerRef = FALSE,
        !.forceUpdate = TRUE,
        !.recorded = <<>>]

\* ------------------------------------- useRateLimiter (types.ts 243-353)
\* cleanupAndCount: prune, then maxRequests minus what is left.
pruneB(s) ==
    [s EXCEPT !.requestTimestamps =
        SelectSeq(@, LAMBDA ts : ts > s.now - cfg.windowMs)]

cleanupAndCount(s) ==
    cfg.maxRequests - Len(pruneB(s).requestTimestamps)

canRequestB(s) ==
    IF s.now < s.cooldownEnd THEN FALSE ELSE cleanupAndCount(s) > 0

useRateLimiterB(s) ==
    [pruneB(s) EXCEPT
        !.canRequest = canRequestB(s),
        !.requestsRemaining = cleanupAndCount(s),
        !.renderedAt = s.now]

recordRequestB(s) ==
    [s EXCEPT
        !.requestTimestamps = Append(@, s.now),
        !.cooldownEnd = s.now + cfg.cooldownMs,
        !.cooldownRemaining = cfg.cooldownMs,
        !.forceUpdate = TRUE,
        !.recorded = Append(@, s.now)]

\* useEffect(..., [cooldownEnd]): runs when cooldownEnd changed; its cleanup
\* clears the interval of the previous run.
cooldownEffectB(s) ==
    IF s.cooldownEnd = s.cooldownEndDep THEN s
    ELSE IF s.cooldownEnd <= s.now
         THEN [s EXCEPT !.cooldownRemaining = 0,
                        !.cooldownTimerRef = FALSE,
                        !.cooldownEndDep = s.cooldownEnd]
         ELSE [s EXCEPT !.cooldownTimerRef = TRUE,
                        !.timerTicked = s.now,
                        !.cooldownEndDep = s.cooldownEnd]

cooldownIntervalB(s) ==
    LET remaining == Max(0, s.cooldownEnd - s.now)
    IN  [s EXCEPT
            !.cooldownRemaining = remaining,
            !.cooldownTimerRef = IF remaining = 0 THEN FALSE ELSE @,
            !.timerTicked = s.now]

resetB(s) ==
    [s EXCEPT
        !.requestTimestamps = <<>>,
        !.cooldownEnd = 0,
        !.cooldownRemaining = 0,
        !.forceUpdate = TRUE,
        !.recorded = <<>>]

\* ------------------------------------------- the limiter the build links
useRateLimiter(s) ==
    IF cfg.impl = "A" THEN useRateLimiterA(s) ELSE useRateLimiterB(s)

recordRequest(s) ==
    IF cfg.impl = "A" THEN recordRequestA(s) ELSE recordRequestB(s)

cooldownInterval(s) ==
    IF cfg.impl = "A" THEN cooldownIntervalA(s) ELSE cooldownIntervalB(s)

limiterReset(s) ==
    IF cfg.impl = "A" THEN resetA(s) ELSE resetB(s)

limiterEffects(s) ==
    IF cfg.impl = "A" THEN s ELSE cooldownEffectB(s)

\* React state of the limiter: a render is due when a handler changed it.
LimiterState(s) == <<s.cooldownRemaining, s.cooldownEnd>>

\* Render the limiter hook and run its effects until nothing changes.
RECURSIVE RenderLimiter(_)
RenderLimiter(s) ==
    LET r == [useRateLimiter(s) EXCEPT !.forceUpdate = FALSE]
        e == limiterEffects(r)
    IN  IF LimiterState(e) # LimiterState(r) THEN RenderLimiter(e) ELSE e

\* What React does after a handler that started in state p and left s.
SettleLimiter(p, s) ==
    IF s.forceUpdate \/ LimiterState(s) # LimiterState(p)
    THEN RenderLimiter(s)
    ELSE s

\* ----------------------------------------------------- configurations
Impls == {"A", "B"}

LimiterConfigs ==
    [impl : Impls,
     cooldownMs : 0..MaxCooldown,
     maxRequests : 0..MaxRequestsCfg,
     windowMs : 1..MaxWindow]

\* The limiter hook right after its first render (mount).
LimiterMount == RenderLimiter(Fresh)

InitRL ==
    /\ cfg \in LimiterConfigs
    /\ Holds(LimiterMount)

\* A timer whose instant has come fires before the clock moves on.
CooldownTimerDue == cooldownTimerRef /\ timerTicked < now

\* --------------------------------------------- actions of the limiter hook
\* The host calls recordRequest().
RLRecordRequest ==
    /\ Len(recorded) < MaxRecords
    /\ Commit(SettleLimiter(Cur, recordRequest(Cur)))

\* The host calls reset().
RLReset ==
    /\ Commit(SettleLimiter(Cur, limiterReset(Cur)))

\* The cooldown interval fires.
RLCooldownTick ==
    /\ CooldownTimerDue
    /\ Commit(SettleLimiter(Cur, cooldownInterval(Cur)))

\* The host component re-renders for a reason of its own.
RLRender ==
    /\ Commit(RenderLimiter(Cur))

\* 100 ms pass.
RLAdvance ==
    /\ now < MaxTime
    /\ ~CooldownTimerDue
    /\ Commit([Cur EXCEPT !.now = now + 1])

NextRL ==
    \/ RLRecordRequest
    \/ RLReset
    \/ RLCooldownTick
    \/ RLRender
    \/ RLAdvance

SpecRL == InitRL /\ [][NextRL]_vars

\* ======================================================================
\* useAudioRecorder (src/src/hooks/useAudioRecorder.ts, lines 164-432)
\* ======================================================================

\* cleanup(): clears the timers, closes the context, stops the tracks and
\* forgets the recorder and the chunks.  setAudioLevels([]) stores a new
\* array, so a render always follows.
cleanup(s) ==
    [s EXCEPT
        !.durationIntervals = @ \ {s.durationIntervalRef},
        !.durationIntervalRef = 0,
        !.timeouts = {t \in @ : t[1] # s.maxDurationTimeoutRef},
        !.maxDurationTimeoutRef = 0,
        !.contexts = @ \ {s.audioContextRef},
        !.audioContextRef = 0,
        !.streams = @ \ {s.streamRef},
        !.streamRef = 0,
        !.mediaRecorderRef = 0,
        !.chunksRef = <<>>,
        !.forceUpdate = TRUE]

\* stopRecording() of the recorder hook.
recorderStopRecording(s) ==
    LET m == s.mediaRecorderRef
        stopped == IF m # 0 /\ s.recorders[m] = "recording"
                   THEN [s EXCEPT !.recorders[m] = "stopping"]   \* mediaRecorder.stop()
                   ELSE s
    IN  [stopped EXCEPT !.isRecording = FALSE]

\* startRecording() of the recorder hook, up to its await.
recorderStartRecording(s) ==
    IF ~cfg.isSupported
    THEN [s EXCEPT !.recorderError = "unsupported", !.errorFresh = TRUE]
    ELSE [s EXCEPT
            !.recorderError = "null",
            !.audioBlob = NoBlob,
            !.chunksRef = <<>>,
            !.forceUpdate = TRUE,                 \* setAudioLevels([])
            !.nextId = @ + 1,
            !.acquiring = @ \cup {s.nextId + 1}]  \* getUserMedia({audio: true})

\* startRecording() after getUserMedia resolved with stream i.
getUserMediaResolved(s, i) ==
    [s EXCEPT
        !.acquiring = @ \ {i},
        !.streams = @ \cup {i},
        !.streamRef = i,
        !.contexts = @ \cup {i},
        !.audioContextRef = i,
        !.mediaRecorderRef = i,
        !.recorders[i] = "recording",             \* mediaRecorder.start(100)
        !.isRecording = TRUE,
        !.forceUpdate = TRUE,                     \* updateAudioLevels()
        !.durationIntervalRef = i,
        !.durationIntervals = @ \cup {i},
        !.durTicked = IF s.durationIntervals = {} THEN s.now ELSE @,
        !.maxDurationTimeoutRef = i,
        !.timeouts = @ \cup {<<i, s.now + cfg.maxDurationMs>>}]

\* startRecording() after getUserMedia rejected: the catch block.
getUserMediaRejected(s, i) ==
    cleanup([s EXCEPT
        !.acquiring = @ \ {i},
        !.recorderError = "acquire",
        !.errorFresh = TRUE])

\* mediaRecorder.ondataavailable of recorder i, for a non-empty chunk.
ondataavailable(s, i) ==
    [s EXCEPT
        !.emitted[i] = @ + 1,
        !.chunksRef = Append(@, <<i, s.emitted[i] + 1>>)]

\* mediaRecorder.onstop of recorder i.
onstop(s, i) ==
    LET blob == Blob(i, s.chunksRef)
    IN  cleanup([s EXCEPT
            !.recorders[i] = "inactive",
            !.audioBlob = blob,
            !.finalized[i] = blob])

\* mediaRecorder.onerror of recorder i; after is the recorder's state once
\* the event is handled.
onerror(s, i, after) ==
    cleanup([s EXCEPT
        !.recorders[i] = after,
        !.errored = @ \cup {i},
        !.recorderError = "hardware",
        !.errorFresh = TRUE,
        !.isRecording = FALSE])

\* The setTimeout callback of session i: () => stopRecording().
maxDurationTimeout(s, i) ==
    LET m == s.mediaRecorderRef
        auto == IF m # 0 /\ s.recorders[m] = "recording" THEN {m} ELSE {}
    IN  recorderStopRecording(
            [s EXCEPT !.timeouts = {t \in @ : t[1] # i},
                      !.autoStopped = @ \cup auto])

\* The setInterval callback: setDuration(Date.now() - startTimeRef.current).
durationInterval(s) ==
    [s EXCEPT !.durTicked = s.now, !.forceUpdate = TRUE]

\* cancelRecording() of the recorder hook.
recorderCancelRecording(s) ==
    [cleanup(s) EXCEPT !.isRecording = FALSE, !.audioBlob = NoBlob]

\* reset() of the recorder hook.
recorderReset(s) ==
    [cleanup(s) EXCEPT
        !.isRecording = FALSE,
        !.audioBlob = NoBlob,
        !.recorderError = "null"]

\* ======================================================================
\* useAiInput (src/unnamed/part_003)
\* ======================================================================
Texts == {"", " ", "hello"}

\* text.trim()
Trim(v) == IF v = " " THEN "" ELSE v

\* A submitAudio(blob) that always uses the general transport.
submitAudio_GeneralTransport(r, a, blob) ==
    IF ~r.canRequest THEN a
    ELSE [recordRequest([a EXCEPT !.state = "loading", !.error = "null"])
            EXCEPT !.calls = Append(@, [kind |-> "audio", input |-> blob,
                                        fn |-> "send",
                                        st |-> "pending", raised |-> "null"])]

\* submitAudio(blob), called from the render whose values are r, on the
\* state a the effects have built so far.
submitAudio(r, a, blob) ==
    LET sendFn == IF cfg.sendAudio THEN "sendAudio" ELSE "send"
    IN  IF ~r.canRequest THEN a
        ELSE [recordRequest([a EXCEPT !.state = "loading", !.error = "null"])
                EXCEPT !.calls = Append(@, [kind |-> "audio", input |-> blob,
                                            fn |-> sendFn,
                                            st |-> "pending", raised |-> "null"])]

\* A submitText() that asks the limiter nothing.
submitText_IgnoringLimit(s) ==
    IF Trim(s.text) = "" THEN s
    ELSE [recordRequest([s EXCEPT !.state = "loading", !.error = "null"])
            EXCEPT !.calls = Append(@, [kind |-> "text", input |-> s.text,
                                        fn |-> "send",
                                        st |-> "pending", raised |-> "null"])]

\* submitText(), up to its await.
submitText(s) ==
    IF Trim(s.text) = "" \/ ~s.canRequest THEN s
    ELSE [recordRequest([s EXCEPT !.state = "loading", !.error = "null"])
            EXCEPT !.calls = Append(@, [kind |-> "text", input |-> s.text,
                                        fn |-> "send",
                                        st |-> "pending", raised |-> "null"])]

\* A completion that leaves the submitted text in the field.
sendResolved_KeepingText(s, c, response) ==
    [s EXCEPT
        !.calls[c].st = "resolved",
        !.result = response,
        !.state = "success",
        !.onSuccessLog = Append(@, response),
        !.forceUpdate = TRUE]

\* What a transport may resolve with: a plain string, or an object, written
\* here as its literal, with some of the fields text, transcription and
\* transcript.
Responses ==
    {"response",
     "{}",
     "{text: 'spoken'}",
     "{transcription: 'heard', transcript: 'other'}",
     "{text: '', transcript: 'fallback'}"}

\* The value of a property the object does not have.
Undefined == "undefined"

\* typeof response === 'object'
typeofObject(response) == response # "response"

\* res.text, res.transcription and res.transcript
Property(response, name) ==
    CASE response = "{text: 'spoken'}" /\ name = "text" -> "spoken"
      [] response = "{transcription: 'heard', transcript: 'other'}"
            /\ name = "transcription" -> "heard"
      [] response = "{transcription: 'heard', transcript: 'other'}"
            /\ name = "transcript" -> "other"
      [] response = "{text: '', transcript: 'fallback'}" /\ name = "text" -> ""
      [] response = "{text: '', transcript: 'fallback'}"
            /\ name = "transcript" -> "fallback"
      [] OTHER -> Undefined

\* a || b of JavaScript, on strings and undefined
Or(a, b) == IF a \notin {Undefined, ""} THEN a ELSE b

\* res.text || res.transcription || res.transcript
transcriptionText(response) ==
    Or(Or(Property(response, "text"), Property(response, "transcription")),
       Property(response, "transcript"))

\* submitText()/submitAudio() after the transport resolved call c.
sendResolved(s, c, response) ==
    LET done == [s EXCEPT
                    !.calls[c].st = "resolved",
                    !.result = response,
                    !.state = "success",
                    !.onSuccessLog = Append(@, response),
                    !.forceUpdate = TRUE]
        heard == transcriptionText(response)
    IN  IF s.calls[c].kind = "text" THEN [done EXCEPT !.text = ""]
        ELSE IF cfg.onTranscription /\ typeofObject(response)
                /\ heard # Undefined
        THEN [done EXCEPT !.text = heard,
                          !.onTranscriptionLog = Append(@, heard)]
        ELSE done

\* What a transport may raise: an Error object, or a value that is no Error.
FailureValues == {"Error: boom", "boom"}

\* err instanceof Error
instanceofError(err) == err = "Error: boom"

\* A catch that gives the request's slot back to the limiter.
sendRejected_GivesSlotBack(s, c, err) ==
    LET e == IF instanceofError(err) THEN err ELSE "Error: Request failed"
        butLast(q) == IF q = <<>> THEN q ELSE SubSeq(q, 1, Len(q) - 1)
    IN  [s EXCEPT
            !.calls[c].st = "rejected",
            !.calls[c].raised = err,
            !.error = e,
            !.state = "error",
            !.onErrorLog = Append(@, e),
            !.requestTimestamps = butLast(@),
            !.recorded = butLast(@),
            !.forceUpdate = TRUE]

\* A catch that leaves the status as it is.
sendRejected_StaysLoading(s, c, err) ==
    LET e == IF instanceofError(err) THEN err ELSE "Error: Request failed"
    IN  [s EXCEPT
            !.calls[c].st = "rejected",
            !.calls[c].raised = err,
            !.error = e,
            !.onErrorLog = Append(@, e),
            !.forceUpdate = TRUE]

\* A catch that also clears the text field.
sendRejected_ClearingText(s, c, err) ==
    [s EXCEPT
        !.calls[c].st = "rejected",
        !.calls[c].raised = err,
        !.error = "Error: Request failed",
        !.state = "error",
        !.text = "",
        !.onErrorLog = Append(@, "Error: Request failed"),
        !.forceUpdate = TRUE]

\* submitText()/submitAudio() after the transport rejected call c with err:
\* the catch.
sendRejected(s, c, err) ==
    LET e == IF instanceofError(err) THEN err ELSE "Error: Request failed"
    IN  [s EXCEPT
            !.calls[c].st = "rejected",
            !.calls[c].raised = err,
            !.error = e,
            !.state = "error",
            !.onErrorLog = Append(@, e),
            !.forceUpdate = TRUE]

\* A startRecording() that reports a denial as an error.
startRecording_DenialAsError(s) ==
    IF ~s.canRequest
    THEN [s EXCEPT !.error = "Error: Rate limited", !.state = "error",
                   !.onErrorLog = Append(@, "Error: Rate limited")]
    ELSE recorderStartRecording(s)

startRecording(s) ==
    IF ~s.canRequest THEN s ELSE recorderStartRecording(s)

\* A stopRecording() that also sets the status to idle.
stopRecording_ToIdle(s) ==
    LET m == s.mediaRecorderRef
        asked == IF s.isRecording /\ m # 0 /\ s.recorders[m] = "recording"
                 THEN {m} ELSE {}
    IN  recorderStopRecording(
            [s EXCEPT !.pendingAudioSubmitRef = TRUE,
                      !.state = "idle",
                      !.stopRequested = @ \cup asked])

stopRecording(s) ==
    LET m == s.mediaRecorderRef
        asked == IF s.isRecording /\ m # 0 /\ s.recorders[m] = "recording"
                 THEN {m} ELSE {}
    IN  recorderStopRecording(
            [s EXCEPT !.pendingAudioSubmitRef = TRUE,
                      !.stopRequested = @ \cup asked])

cancelRecording(s) ==
    LET open == {i \in 1..s.nextId : s.finalized[i] = NoBlob}
    IN  [recorderCancelRecording(s) EXCEPT
            !.state = "idle",
            !.cancelled = @ \cup open]

\* A submit() that hands blank text to the transport.
submit_SendsBlank(s) ==
    IF s.isRecording THEN stopRecording(s)
    ELSE IF ~s.canRequest THEN s
    ELSE [recordRequest([s EXCEPT !.state = "loading", !.error = "null"])
            EXCEPT !.calls = Append(@, [kind |-> "text", input |-> s.text,
                                        fn |-> "send",
                                        st |-> "pending", raised |-> "null"])]

\* A submit() that looks at the text before it looks at the recorder.
submit_TextFirst(s) ==
    IF Trim(s.text) # "" THEN submitText(s)
    ELSE IF s.isRecording THEN stopRecording(s)
    ELSE s

submit(s) ==
    IF s.isRecording THEN stopRecording(s)
    ELSE IF Trim(s.text) # "" THEN submitText(s)
    ELSE s

reset(s) ==
    LET open == {i \in 1..s.nextId : s.finalized[i] = NoBlob}
    IN  recorderReset(limiterReset(
            [s EXCEPT !.state = "idle", !.text = "", !.error = "null",
                      !.result = "null", !.wasReset = @ \cup open]))

\* A rate-limit effect that also takes the status from success.
rateLimitEffect_FromSuccess(r, a) ==
    IF ~r.canRequest /\ r.state \in {"idle", "success"}
    THEN [a EXCEPT !.state = "rate-limited"]
    ELSE IF r.canRequest /\ r.state = "rate-limited" THEN [a EXCEPT !.state = "idle"]
    ELSE a

\* The four effects of useAiInput, in source order.  r holds the values of
\* the render the effects belong to, a the state built so far.
rateLimitEffect(r, a) ==
    IF ~r.canRequest /\ r.state = "idle" THEN [a EXCEPT !.state = "rate-limited"]
    ELSE IF r.canRequest /\ r.state = "rate-limited" THEN [a EXCEPT !.state = "idle"]
    ELSE a

recordingEffect(r, a) ==
    IF r.isRecording /\ r.state # "recording" THEN [a EXCEPT !.state = "recording"]
    ELSE a

\* Its dependency audioRecorder.error changes when the recorder stores a new
\* Error object.
recorderErrorEffect(r, a) ==
    IF r.errorFresh /\ r.recorderError # "null"
    THEN [a EXCEPT !.error = r.recorderError, !.state = "error",
                   !.onErrorLog = Append(@, r.recorderError)]
    ELSE a

\* Its dependency submitAudio is a new function on every render, so it runs
\* after every render.
audioBlobEffect(r, a) ==
    IF a.pendingAudioSubmitRef /\ r.audioBlob # NoBlob /\ ~r.isRecording
    THEN submitAudio(r, [a EXCEPT !.pendingAudioSubmitRef = FALSE], r.audioBlob)
    ELSE a

Effects(r) ==
    audioBlobEffect(r,
        recorderErrorEffect(r,
            recordingEffect(r,
                rateLimitEffect(r, limiterEffects(r)))))

\* React state: a render is due when a handler changed any of it.
ReactState(s) ==
    <<s.cooldownRemaining, s.cooldownEnd, s.state, s.text, s.error, s.result,
      s.isRecording, s.audioBlob, s.recorderError>>

\* Render useAiInput and run the effects until nothing changes.
RECURSIVE RenderLoop(_)
RenderLoop(s) ==
    LET r == [useRateLimiter(s) EXCEPT !.forceUpdate = FALSE]
        e == [Effects(r) EXCEPT !.errorFresh = FALSE]
    IN  IF e.forceUpdate \/ ReactState(e) # ReactState(r)
        THEN RenderLoop(e)
        ELSE e

\* After unmount the state setters do nothing: only refs and the browser
\* keep what the handler did.
Freeze(p, s) ==
    [s EXCEPT
        !.cooldownRemaining = p.cooldownRemaining,
        !.cooldownEnd = p.cooldownEnd,
        !.state = p.state,
        !.text = p.text,
        !.error = p.error,
        !.result = p.result,
        !.isRecording = p.isRecording,
        !.audioBlob = p.audioBlob,
        !.recorderError = p.recorderError]

\* What React does after a handler that started in state p and left s.
Settle(p, s) ==
    IF ~s.mounted THEN Freeze(p, s)
    ELSE IF s.forceUpdate \/ s.errorFresh \/ ReactState(s) # ReactState(p)
    THEN RenderLoop(s)
    ELSE s

\* The component goes away: the cleanup functions of the hooks' effects run.
\* The hooks' state is gone with the component; the refs the closures hold,
\* the timers not cleared and the browser's objects stay.
unmount(s) ==
    LET c == cleanup(s)
    IN  [Fresh EXCEPT
            !.mounted = FALSE,
            !.now = c.now,
            !.nextId = c.nextId,
            !.acquiring = c.acquiring,
            !.streams = c.streams,
            !.contexts = c.contexts,
            !.recorders = c.recorders,
            !.emitted = c.emitted,
            !.durationIntervals = c.durationIntervals,
            !.durTicked = c.durTicked,
            !.timeouts = c.timeouts,
            !.calls = c.calls,
            !.faults = c.faults,
            !.stopRequested = c.stopRequested,
            !.cancelled = c.cancelled,
            !.wasReset = c.wasReset,
            !.autoStopped = c.autoStopped,
            !.errored = c.errored,
            !.onSuccessLog = c.onSuccessLog,
            !.onErrorLog = c.onErrorLog,
            !.onTranscriptionLog = c.onTranscriptionLog,
            !.finalized = c.finalized]

\* ----------------------------------------------------- configurations
Configs ==
    {[impl |-> i, cooldownMs |-> 1, maxRequests |-> 2, windowMs |-> 3,
      maxDurationMs |-> 2, isSupported |-> b,
      sendAudio |-> FALSE, onTranscription |-> FALSE, responses |-> {"response"},
      maxOps |-> MaxOps, maxCalls |-> MaxCalls] : i \in Impls, b \in BOOLEAN}

Init ==
    /\ cfg \in Configs
    /\ Holds(RenderLoop(Fresh))

\* ---------------------------------------------------------------- timers
DurationTimerDue == durationIntervals # {} /\ durTicked < now

TimeoutDue(i) == \E t \in timeouts : t[1] = i /\ t[2] <= now

TimerDue ==
    \/ CooldownTimerDue
    \/ DurationTimerDue
    \/ \E i \in Ids : TimeoutDue(i)

\* --------------------------------------------------------------- actions
Bounded(s) ==
    /\ Len(s.calls) <= cfg.maxCalls
    /\ s.nextId <= MaxStarts

\* One handler: its code, then the renders and effects it causes.
Do(s) ==
    LET after == Settle(Cur, s)
    IN  Bounded(after) /\ Commit(after)

\* The host may invoke an operation.
HostMay == mounted /\ ops < cfg.maxOps

\* The state in which the host's call starts.
Called(op) == [Cur EXCEPT !.ops = @ + 1, !.lastOp = op]

\* The state in which a timer, the browser or the transport calls back.
Event == [Cur EXCEPT !.lastOp = "none"]

\* Host operations (the functions useAiInput returns).
SetText ==
    /\ HostMay
    /\ \E v \in Texts \ {text} : Do([Called("setText") EXCEPT !.text = v])

Submit ==
    /\ HostMay
    /\ Do(submit(Called("submit")))

StartRecording ==
    /\ HostMay
    /\ Do(startRecording(Called("startRecording")))

StopRecording ==
    /\ HostMay
    /\ Do(stopRecording(Called("stopRecording")))

CancelRecording ==
    /\ HostMay
    /\ Do(cancelRecording(Called("cancelRecording")))

Reset ==
    /\ HostMay
    /\ Do(reset(Called("reset")))

\* The host component re-renders for a reason of its own.
Render ==
    /\ mounted
    /\ Do([Event EXCEPT !.forceUpdate = TRUE])

Unmount ==
    /\ mounted
    /\ Do(unmount(Event))

\* Timers.
Advance ==
    /\ now < MaxTime
    /\ ~TimerDue
    /\ Commit([Event EXCEPT !.now = now + 1])

CooldownTick ==
    /\ CooldownTimerDue
    /\ Do(cooldownInterval(Event))

DurationTick ==
    /\ DurationTimerDue
    /\ Do(durationInterval(Event))

MaxDurationTimeout ==
    \E i \in Ids :
        /\ TimeoutDue(i)
        /\ Do(maxDurationTimeout(Event, i))

\* The browser.
AcquireOk ==
    \E i \in acquiring : Do(getUserMediaResolved(Event, i))

\* The state in which a failure the browser raises is handled.
Failed == [Event EXCEPT !.faults = @ + 1]

AcquireFail ==
    /\ faults < MaxFaults
    /\ \E i \in acquiring : Do(getUserMediaRejected(Failed, i))

DataAvailable ==
    \E i \in Ids :
        /\ recorders[i] \in {"recording", "stopping"}
        /\ emitted[i] < MaxChunks
        /\ Do(ondataavailable(Event, i))

\* The stop event queued by MediaRecorder.stop().
StopEvent ==
    \E i \in Ids :
        /\ recorders[i] = "stopping"
        /\ Do(onstop(Event, i))

\* A recorder whose tracks have all ended stops by itself.
TracksEnded ==
    \E i \in Ids :
        /\ recorders[i] = "recording"
        /\ i \notin streams
        /\ Commit([Event EXCEPT !.recorders[i] = "stopping"])

\* A recording error: the error event, followed or not by a stop event.
RecorderError ==
    /\ faults < MaxFaults
    /\ \E i \in Ids :
        \/ /\ recorders[i] = "recording"
           /\ \E after \in {"stopping", "inactive"} : Do(onerror(Failed, i, after))
        \/ /\ recorders[i] = "stopping"
           /\ Do(onerror(Failed, i, "stopping"))

\* The transport.
TransportResolve ==
    \E c \in DOMAIN calls :
        /\ calls[c].st = "pending"
        /\ \E response \in cfg.responses : Do(sendResolved(Event, c, response))

TransportReject ==
    \E c \in DOMAIN calls :
        /\ calls[c].st = "pending"
        /\ \E err \in FailureValues : Do(sendRejected(Event, c, err))

Next ==
    \/ SetText
    \/ Submit
    \/ StartRecording
    \/ StopRecording
    \/ CancelRecording
    \/ Reset
    \/ Render
    \/ Unmount
    \/ Advance
    \/ CooldownTick
    \/ DurationTick
    \/ MaxDurationTimeout
    \/ AcquireOk
    \/ AcquireFail
    \/ StopEvent
    \/ TracksEnded
    \/ RecorderError
    \/ TransportResolve
    \/ TransportReject

Spec == Init /\ [][Next]_vars

\* ------------------------------------------------ a host that only types
\* The same hook, used by a host that never touches the microphone.
TextConfigs ==
    {[impl |-> i, cooldownMs |-> 1, maxRequests |-> 2, windowMs |-> 3,
      maxDurationMs |-> 2, isSupported |-> TRUE,
      sendAudio |-> FALSE, onTranscription |-> FALSE, responses |-> {"response"},
      maxOps |-> MaxTextOps, maxCalls |-> MaxTextCalls] : i \in Impls}

InitText ==
    /\ cfg \in TextConfigs
    /\ Holds(RenderLoop(Fresh))

NextText ==
    \/ SetText
    \/ Submit
    \/ Reset
    \/ Render
    \/ Advance
    \/ CooldownTick
    \/ TransportResolve
    \/ TransportReject

SpecText == InitText /\ [][NextText]_vars

\* ------------------------------------------- claims on the orchestrator
\* The transport calls whose input is the payload of session i.
CallsFor(i) ==
    {c \in DOMAIN calls : calls[c].kind = "audio" /\ calls[c].input.sess = i}

Outstanding == {c \in DOMAIN calls : calls[c].st = "pending"}

\* Session i ended by a stop request and nothing else, and its payload is there.
StoppedAndFinalized(i) ==
    /\ i \in stopRequested
    /\ i \notin cancelled \cup wasReset \cup errored
    /\ finalized[i] # NoBlob

\* C1: a session stopped by stopRecording() whose payload arrived has exactly
\* one transport call, and the call's input is that payload.
C1_ExactlyOneCallPerStoppedSession ==
    mounted =>
        \A i \in Ids :
            StoppedAndFinalized(i) =>
                /\ Cardinality(CallsFor(i)) = 1
                /\ \A c \in CallsFor(i) : calls[c].input = finalized[i]

\* C2: a session cancelled before its payload arrived never has a transport call.
C2_NoCallAfterCancel ==
    \A i \in cancelled : CallsFor(i) = {}

\* C3: at most one transport call is outstanding at any time.
C3_AtMostOneOutstanding ==
    Cardinality(Outstanding) <= 1

\* C4: a session stopped by the max-duration timeout, with no host stop or
\* cancel, is submitted once its payload is there, and status has left
\* recording.
C4_MaxDurationSubmits ==
    mounted =>
        \A i \in autoStopped :
            (/\ finalized[i] # NoBlob
             /\ i \notin stopRequested \cup cancelled \cup wasReset \cup errored)
            => /\ Cardinality(CallsFor(i)) = 1
               /\ state \in {"loading", "success", "error"}

\* C5: at most one microphone stream is live at any time.
C5_AtMostOneSession ==
    Cardinality(streams) <= 1

\* The sessions the host or the browser has ended, by any path.
Ended ==
    stopRequested \cup cancelled \cup wasReset \cup autoStopped \cup errored
        \cup (IF mounted THEN {} ELSE 1..nextId)

\* No event of session i is queued: its acquisition is settled and no stop
\* event is waiting.
NothingQueued(i) == i \notin acquiring /\ recorders[i] # "stopping"

\* C6: once a session has ended and its queued events are handled, its stream
\* and its analysis context are released.
C6_ResourcesReleased ==
    \A i \in Ended :
        NothingQueued(i) => (i \notin streams /\ i \notin contexts)

\* C7: while a transport call is outstanding and status is loading,
\* startRecording() begins no microphone acquisition.
C7_NoStartWhileLoading ==
    [][(state = "loading" /\ Outstanding # {}) => nextId' = nextId]_vars

\* ------------------------------------------------ claims on the limiter
\* What the limiter's contract is stated over: the requests recorded since
\* the last reset, not the hook's own bookkeeping.
InWindow ==
    Cardinality({k \in DOMAIN recorded : now - recorded[k] < cfg.windowMs})

LastRecord == recorded[Len(recorded)]

CooldownExpired ==
    recorded = <<>> \/ now >= LastRecord + cfg.cooldownMs

\* No timer callback of the current instant is still waiting to run.
LimiterSettled == ~CooldownTimerDue

\* C8: at every instant canRequest is true exactly when the cooldown of the
\* most recent recordRequest has expired and fewer than maxRequests recorded
\* requests lie within the last windowMs.
C8_CanRequestIffCooldownAndWindow ==
    LimiterSettled =>
        (canRequest <=> (CooldownExpired /\ InWindow < cfg.maxRequests))

\* C9: after a recordRequest at t with cooldownMs > 0, canRequest is false
\* throughout [t, t + cooldownMs), and it stays false for as long as
\* maxRequests recorded requests lie within the last windowMs.
C9_FalseDuringCooldownAndFullWindow ==
    recorded # <<>> =>
        /\ (cfg.cooldownMs > 0 /\ now < LastRecord + cfg.cooldownMs) => ~canRequest
        /\ InWindow >= cfg.maxRequests => ~canRequest

\* C9's case: the cooldown is over and has been rendered so, and the window is
\* still full.
C9_Witness ==
    /\ recorded # <<>>
    /\ cfg.cooldownMs > 0
    /\ cfg.maxRequests > 0
    /\ now >= LastRecord + cfg.cooldownMs
    /\ InWindow >= cfg.maxRequests
    /\ renderedAt = now
    /\ cooldownRemaining = 0
    /\ ~canRequest

\* C10: requestsRemaining is never negative, and right after a render it is
\* max(0, maxRequests - number of recorded requests within the last windowMs).
C10_RequestsRemainingNonNegative ==
    /\ requestsRemaining >= 0
    /\ renderedAt = now =>
          requestsRemaining = Max(0, cfg.maxRequests - InWindow)

\* ------------------------------------------------ claims on submissions
\* A submitText() call: submit() with no recording active and non-blank text.
SubmitTextStep == Submit /\ ~isRecording /\ Trim(text) # ""

\* The call submitText() dispatches from the current state.
TextCall ==
    [kind |-> "text", input |-> text, fn |-> "send", st |-> "pending",
     raised |-> "null"]

\* The cooldown of the last request has run out and the hook has rendered it.
CooldownRendered ==
    recorded = <<>> \/ (now >= LastRecord + cfg.cooldownMs /\ ~CooldownTimerDue)

C12_DenialShowsRateLimited ==
    [][((SubmitTextStep \/ StartRecording)
            /\ ~canRequest
            /\ state \in {"idle", "rate-limited", "success", "error"})
          => state' = "rate-limited"]_vars

\* Call c completes in this step, with the given outcome.
Completes(c, outcome) == calls[c].st = "pending" /\ calls'[c].st = outcome

\* C13: a submitText() accepted from idle makes the status loading; while its
\* call is outstanding no timer and no render changes the status; when the
\* transport resolves the status becomes success, lastResult is the response,
\* text is empty and onSuccess has been called once more, with the response.
C13_IdleLoadingSuccess ==
    [][/\ (SubmitTextStep /\ state = "idle" /\ calls' # calls) => state' = "loading"
       /\ (state = "loading" /\ Outstanding # {} /\ lastOp' = "none" /\ calls' = calls)
             => state' = "loading"
       /\ \A c \in DOMAIN calls :
             (calls[c].kind = "text" /\ Completes(c, "resolved") /\ state = "loading")
             => /\ state' = "success"
                /\ result' = "response"
                /\ text' = ""
                /\ onSuccessLog' = Append(onSuccessLog, "response")]_vars

\* C13's case: setText("hello"), submit(), and the transport has resolved.
C13_Witness ==
    /\ ops = 2
    /\ Len(calls) = 1
    /\ calls[1] = [kind |-> "text", input |-> "hello", fn |-> "send",
                   st |-> "resolved", raised |-> "null"]
    /\ state = "success"
    /\ result = "response"
    /\ text = ""
    /\ onSuccessLog = <<"response">>

\* C14: when the transport rejects a text submission the status becomes
\* error, lastError is set, onError is called once, text is left as it was,
\* and no step other than a submit() of the host adds a transport call.
C14_RejectKeepsTextNoRetry ==
    [][/\ \A c \in DOMAIN calls :
             (calls[c].kind = "text" /\ Completes(c, "rejected"))
             => /\ state' = "error"
                /\ error' # "null"
                /\ Len(onErrorLog') = Len(onErrorLog) + 1
                /\ text' = text
       /\ lastOp' # "submit" => Len(calls') = Len(calls)]_vars

\* C14's case: setText("hello"), submit() at instant 0, the transport has
\* rejected and that was rendered, and the clock has run on to its end with
\* no further call.
C14_Witness ==
    /\ ops = 2
    /\ recorded = <<0>>
    /\ Len(calls) = 1
    /\ calls[1].kind = "text"
    /\ calls[1].st = "rejected"
    /\ state = "error"
    /\ error # "null"
    /\ text = "hello"
    /\ text = calls[1].input
    /\ Len(onErrorLog) = 1
    /\ renderedAt < now
    /\ now = MaxTime

\* C15: lastError and the argument of onError are the value the transport
\* raised, whatever it is.
C15_FailureValueVerbatim ==
    [][\A c \in DOMAIN calls :
          Completes(c, "rejected")
          => /\ error' = calls'[c].raised
             /\ onErrorLog' = Append(onErrorLog, calls'[c].raised)]_vars

\* ---------------------------------------------------- claims on capture
\* Acquisition attempt i fails in this step: getUserMedia rejects.
AcquisitionFails(i) == i \in acquiring /\ i \notin acquiring' /\ recorders'[i] = "none"

\* startRecording() passes the limiter on a platform without MediaRecorder.
UnsupportedStart == StartRecording /\ canRequest /\ ~cfg.isSupported

\* What the hook shows after a failed acquisition.
CaptureErrorSurfaced ==
    /\ state' = "error"
    /\ error' # "null"
    /\ error' = recorderError'
    /\ onErrorLog' = Append(onErrorLog, error')
    /\ ~isRecording'

\* C16: when an acquisition fails (getUserMedia rejects, or the platform has
\* no recorder) the status becomes error, lastError is the capture error,
\* onError is called with it, and isRecording is not true.
C16_AcquisitionFailureSurfaces ==
    [][mounted =>
          /\ (\E i \in Ids : AcquisitionFails(i)) => CaptureErrorSurfaced
          /\ UnsupportedStart => CaptureErrorSurfaced]_vars

\* What the host observes of the hook, with the limiter's state.
Observable ==
    <<state, text, error, result, isRecording, audioBlob, calls,
      requestTimestamps, cooldownRemaining, cooldownEnd, cooldownTimerRef,
      canRequest, requestsRemaining, recorded, onSuccessLog, onErrorLog,
      onTranscriptionLog>>

\* C17: submit() with blank text while no recording is active changes
\* nothing: status, text, lastResult, lastError, the limiter and the
\* transport calls are as before, and no submission is left pending.
C17_BlankSubmitIsNoOp ==
    [][(Submit /\ ~isRecording /\ Trim(text) = "")
          => UNCHANGED <<Observable, pendingAudioSubmitRef>>]_vars

\* C17's case: setText(" "), then submit().
C17_Witness ==
    /\ lastOp = "submit"
    /\ ops = 2
    /\ text = " "
    /\ ~isRecording
    /\ state = "idle"
    /\ calls = <<>>
    /\ requestTimestamps = <<>>

\* C18: cancelRecording() or stopRecording() right after cancelRecording()
\* changes nothing the host observes, dispatches no call, and leaves no
\* submission pending.
C18_CancelThenStopOrCancel ==
    [][(lastOp = "cancelRecording" /\ (CancelRecording \/ StopRecording))
          => /\ UNCHANGED Observable
             /\ ~pendingAudioSubmitRef']_vars

\* No capture session is active: nothing is being acquired, no recorder is
\* live and the status is none of recording and loading.
NoSession ==
    /\ ~isRecording
    /\ mediaRecorderRef = 0
    /\ acquiring = {}
    /\ \A i \in Ids : recorders[i] \in {"none", "inactive"}
    /\ state \in {"idle", "success", "error", "rate-limited"}

\* C19: stopRecording() with no capture session active dispatches no
\* transport call and leaves no submission pending.
C19_StopWithoutSessionIsNoOp ==
    [][(StopRecording /\ NoSession)
          => /\ calls' = calls
             /\ ~pendingAudioSubmitRef']_vars

\* C20: submit() does what stopRecording() does when isRecording is true,
\* else what submitText() does when the trimmed text is not empty, else
\* nothing.
C20_SubmitDispatches ==
    [][Submit =>
          IF isRecording
          THEN Commit(Settle(Cur, stopRecording(Called("submit"))))
          ELSE IF Trim(text) # ""
          THEN Commit(Settle(Cur, submitText(Called("submit"))))
          ELSE Commit(Called("submit"))]_vars

\* C20's case: submit() while recording with text in the field asked the
\* recorder to stop and sent no text.
C20_Witness ==
    /\ lastOp = "submit"
    /\ Trim(text) # ""
    /\ stopRequested # {}
    /\ pendingAudioSubmitRef
    /\ ~isRecording
    /\ calls = <<>>

\* ------------------------------------------------------ claims on reset
\* C21: right after reset() the status is idle, text, lastResult and
\* lastError are empty, requestsRemaining is maxRequests, cooldownRemaining
\* is 0, and no capture session is active: isRecording is false and no
\* microphone stream is live.
C21_ResetRestoresInitialState ==
    [][Reset =>
          /\ state' = "idle"
          /\ text' = ""
          /\ result' = "null"
          /\ error' = "null"
          /\ requestsRemaining' = cfg.maxRequests
          /\ cooldownRemaining' = 0
          /\ ~isRecording'
          /\ streams' = {}]_vars

\* ------------------------------------- a host that types and cancels
\* The hook under a host that submits text and calls cancelRecording(),
\* the one operation that sets the status to idle while the limiter denies.
MaxStatusOps == 4

StatusConfigs ==
    {[impl |-> i, cooldownMs |-> 1, maxRequests |-> m, windowMs |-> 3,
      maxDurationMs |-> 2, isSupported |-> TRUE,
      sendAudio |-> FALSE, onTranscription |-> FALSE, responses |-> {"response"},
      maxOps |-> MaxStatusOps, maxCalls |-> MaxCalls] : i \in Impls, m \in 1..2}

InitStatus ==
    /\ cfg \in StatusConfigs
    /\ Holds(RenderLoop(Fresh))

NextStatus ==
    \/ SetText
    \/ Submit
    \/ CancelRecording
    \/ Render
    \/ Advance
    \/ CooldownTick
    \/ TransportResolve
    \/ TransportReject

\* The clock moves on: the change an Advance step makes to the clock.
TimePasses == now < MaxTime /\ ~TimerDue /\ now' = now + 1

\* The limiter's interval runs its callback (or recordRequest replaces the
\* interval by a new one): the change such a step makes to the timer.
IntervalFires == CooldownTimerDue /\ timerTicked' = now

\* Time passes and a due interval fires; the host and the transport are
\* under no obligation to act.
SpecStatus ==
    /\ InitStatus
    /\ [][NextStatus]_vars
    /\ WF_now(TimePasses)
    /\ WF_timerTicked(IntervalFires)

\* The limiter's condition for allowing a request.
ConditionClear == CooldownExpired /\ InWindow < cfg.maxRequests

\* C22: a status of rate-limited returns to idle without any host action
\* once the cooldown has expired and a window slot is free, whether the
\* denial came from the cooldown or from a full window.
C22_RateLimitedReturnsToIdle ==
    (state = "rate-limited" /\ ConditionClear) ~> (state # "rate-limited")

\* ------------------------------------------------- claims on denials
\* A call of submitText() or startRecording() that the limiter denies.
Denied == (SubmitTextStep \/ StartRecording) /\ ~canRequest

\* C23: a limiter denial of submitText() or startRecording() leaves
\* lastError as it was, invokes no error callback and does not make the
\* status error.
C23_DenialIsSilent ==
    [][Denied =>
          /\ error' = error
          /\ recorderError' = recorderError
          /\ onErrorLog' = onErrorLog
          /\ (state' = "error" => state = "error")]_vars

\* startRecording() has just been denied on a platform that supports
\* capture, during the cooldown of an accepted text submission.
C23_Witness ==
    /\ lastOp = "startRecording"
    /\ cfg.isSupported
    /\ ~canRequest
    /\ nextId = 0
    /\ Len(calls) = 1
    /\ error = "null"
    /\ onErrorLog = <<>>

\* --------------------------------------------- claims on session outcomes
\* The outcomes session i has had.
Finalized(i) == finalized[i] # NoBlob

Discarded(i) == i \in cancelled \cup wasReset

CaptureError(i) == i \in errored

\* C24: a capture session has one outcome only, a finalized payload, a
\* discard by cancel or reset, or a capture error; a cancelled session never
\* emits a finalized payload: no payload is built for it, audioBlob is not
\* set from it and the recording-complete callback is not invoked for it.
C24_OneOutcomePerSession ==
    \A i \in Ids :
        /\ ~(Finalized(i) /\ Discarded(i))
        /\ ~(Finalized(i) /\ CaptureError(i))
        /\ ~(Discarded(i) /\ CaptureError(i))

\* --------------------------------------------- claims on capture errors
\* C25: a hardware error during an active capture session of a mounted hook ends it:
\* isRecording becomes false, the status becomes error, the error callback is
\* invoked with the capture error, and no transport call is ever made for
\* that session, also when stopRecording() was requested before the error.
C25_HardwareErrorEndsSession ==
    /\ [][RecorderError /\ mounted =>
             /\ ~isRecording'
             /\ state' = "error"
             /\ error' = "hardware"
             /\ onErrorLog' = Append(onErrorLog, "hardware")]_vars
    /\ [](\A i \in errored : CallsFor(i) = {})

\* --------------------------------------------- a host that dictates
\* The hook under a host that types, records and submits.
NextVoice ==
    \/ SetText
    \/ Submit
    \/ StartRecording
    \/ StopRecording
    \/ Render
    \/ Advance
    \/ CooldownTick
    \/ DurationTick
    \/ MaxDurationTimeout
    \/ AcquireOk
    \/ StopEvent
    \/ TransportResolve
    \/ TransportReject

\* With or without a transport for audio.
MaxTransportOps == 4

TransportConfigs ==
    {[impl |-> i, cooldownMs |-> 1, maxRequests |-> 2, windowMs |-> 3,
      maxDurationMs |-> 2, isSupported |-> TRUE,
      sendAudio |-> a, onTranscription |-> FALSE, responses |-> {"response"},
      maxOps |-> MaxTransportOps, maxCalls |-> MaxCalls] :
        i \in Impls, a \in BOOLEAN}

InitTransport ==
    /\ cfg \in TransportConfigs
    /\ Holds(RenderLoop(Fresh))

SpecTransport == InitTransport /\ [][NextVoice]_vars

\* With or without a transcription callback, and a transport that may
\* resolve with any of the responses.
MaxVoiceOps == 3

VoiceConfigs ==
    {[impl |-> i, cooldownMs |-> 1, maxRequests |-> 2, windowMs |-> 3,
      maxDurationMs |-> 2, isSupported |-> TRUE,
      sendAudio |-> FALSE, onTranscription |-> t, responses |-> Responses,
      maxOps |-> MaxVoiceOps, maxCalls |-> MaxCalls] :
        i \in Impls, t \in BOOLEAN}

InitVoice ==
    /\ cfg \in VoiceConfigs
    /\ Holds(RenderLoop(Fresh))

SpecVoice == InitVoice /\ [][NextVoice]_vars

\* ------------------------------------------------ claims on transports
\* C26: with an audio transport supplied every audio submission invokes it
\* and every text submission invokes the general transport; with none
\* supplied audio submissions invoke the general transport too.
C26_TransportByKind ==
    \A c \in DOMAIN calls :
        calls[c].fn = IF calls[c].kind = "audio" /\ cfg.sendAudio
                      THEN "sendAudio" ELSE "send"

\* With an audio transport supplied, one text and one audio submission made.
C26_Witness ==
    /\ cfg.sendAudio
    /\ Len(calls) = 2
    /\ \E c \in DOMAIN calls : calls[c].kind = "text"
    /\ \E c \in DOMAIN calls : calls[c].kind = "audio" /\ calls[c].input.sess = 1

\* The string the response exposes: the first of text, transcription and
\* transcript that is present.
Exposed(response) ==
    IF ~typeofObject(response) THEN Undefined
    ELSE IF Property(response, "text") # Undefined
    THEN Property(response, "text")
    ELSE IF Property(response, "transcription") # Undefined
    THEN Property(response, "transcription")
    ELSE Property(response, "transcript")

\* C27: when an audio submission resolves with an object that exposes a
\* string under text, transcription or transcript, the first present, text
\* becomes that string and the transcription callback, if supplied, is
\* invoked once with it; when the submission fails or the response has no
\* such field, text is unchanged and the callback is not invoked.
C27_TranscriptionBecomesText ==
    [][\A c \in DOMAIN calls :
          calls[c].kind = "audio" =>
              /\ (Completes(c, "resolved") /\ Exposed(result') # Undefined) =>
                    /\ text' = Exposed(result')
                    /\ onTranscriptionLog' =
                           IF cfg.onTranscription
                           THEN Append(onTranscriptionLog, Exposed(result'))
                           ELSE onTranscriptionLog
              /\ (\/ Completes(c, "rejected")
                  \/ Completes(c, "resolved") /\ Exposed(result') = Undefined) =>
                    /\ text' = text
                    /\ onTranscriptionLog' = onTranscriptionLog]_vars

\* ------------------------------------------ claims on a zero request limit
\* C28: with maxRequests = 0 the limiter always allows: canRequest is true
\* whenever the cooldown has expired, however many requests were recorded.
C28_ZeroLimitAlwaysAllows ==
    (cfg.maxRequests = 0 /\ CooldownExpired /\ LimiterSettled) => canRequest

\* --------------------------------------------------- claims on setText
\* C29: setText(value) is accepted in every status and changes only text:
\* the status, lastResult, lastError, pendingAudioSubmitRef, the capture
\* session and the limiter's records and cooldown stay as they were, and no
\* transport call is made.
C29_SetTextChangesOnlyText ==
    [][SetText =>
          /\ text' # text
          /\ UNCHANGED <<state, result, error, pendingAudioSubmitRef,
                         isRecording, audioBlob, recorderError, mediaRecorderRef,
                         streams, recorders, acquiring, calls, recorded,
                         cooldownRemaining, cooldownEnd, cooldownTimerRef>>]_vars

\* ------------------------------------------ claims on the pending flag
\* A stop requested while recording still awaits its finalize event.
StopAwaitsFinalize ==
    \E i \in stopRequested : recorders[i] = "stopping"

\* The step dispatches an audio submission.
DispatchesAudio ==
    /\ Len(calls') > Len(calls)
    /\ calls'[Len(calls')].kind = "audio"

\* C30: pendingAudioSubmitRef is true only between a stopRecording() made
\* while recording and the dispatch of that session's submission: it is
\* false whenever no stop awaits a finalize event, the step that dispatches
\* the submission clears it, and cancelRecording() clears it.
C30_PendingOnlyWhileStopAwaits ==
    /\ [](pendingAudioSubmitRef => StopAwaitsFinalize)
    /\ [][DispatchesAudio => ~pendingAudioSubmitRef']_vars
    /\ [][CancelRecording => ~pendingAudioSubmitRef']_vars

\* ------------------------------------------ claims on the status sequence
\* The host has called startRecording() and then stopRecording() on the one
\* session, nothing else, and no fault has occurred.
StartedAndStopped ==
    /\ mounted
    /\ stopRequested = {1}
    /\ nextId = 1
    /\ ops = 2
    /\ faults = 0

\* The status changes of idle, recording, loading, success or error, from the
\* stop request on.
AfterStopSequence ==
    {<<"recording", "recording">>, <<"recording", "loading">>,
     <<"loading", "loading">>, <<"loading", "success">>,
     <<"loading", "error">>, <<"success", "success">>, <<"error", "error">>}

\* C31: a session started from idle and ended by stopRecording(), also
\* before any chunk has arrived, shows the statuses idle, recording, loading,
\* then success or error: the status is recording when stop is requested,
\* and from then on it never returns to idle, never goes back to recording
\* and is loading from the dispatch until the transport completes.
C31_IdleRecordingLoadingDone ==
    [][/\ (StartedAndStopped /\ StartedAndStopped') =>
             <<state, state'>> \in AfterStopSequence
       /\ (~StartedAndStopped /\ StartedAndStopped') =>
             (state = "recording" /\ state' = "recording")
       /\ (StartedAndStopped /\ StartedAndStopped'
             /\ Len(calls') > Len(calls)) => state' = "loading"]_vars

\* C31's case: start, stop before any chunk, and the transport has resolved.
C31_Witness ==
    /\ StartedAndStopped
    /\ finalized[1] = Blob(1, <<>>)
    /\ Len(calls) = 1
    /\ calls[1].st = "resolved"
    /\ state = "success"

\* ------------------------------------------- a host that only records
\* The hook under a host that starts and stops recordings, with the chunks
\* the MediaRecorder delivers.
ChunkConfigs ==
    {[impl |-> i, cooldownMs |-> 1, maxRequests |-> 2, windowMs |-> 3,
      maxDurationMs |-> 2, isSupported |-> TRUE,
      sendAudio |-> FALSE, onTranscription |-> FALSE, responses |-> {"response"},
      maxOps |-> MaxOps, maxCalls |-> MaxCalls] : i \in Impls}

InitChunks ==
    /\ cfg \in ChunkConfigs
    /\ Holds(RenderLoop(Fresh))

NextChunks ==
    \/ StartRecording
    \/ StopRecording
    \/ Render
    \/ Advance
    \/ CooldownTick
    \/ DurationTick
    \/ MaxDurationTimeout
    \/ AcquireOk
    \/ DataAvailable
    \/ StopEvent
    \/ TransportResolve
    \/ TransportReject

SpecChunks == InitChunks /\ [][NextChunks]_vars

\* ------------------------------------------------- claims on the payload
\* The non-empty chunks session i's recorder has delivered, in arrival order.
Delivered(i) == [k \in 1..emitted[i] |-> <<i, k>>]

\* C32: the finalized payload of a session ended by stopRecording() is the
\* concatenation, in arrival order, of every non-empty chunk its recorder
\* delivered up to the finalize event, each once: it holds no chunk of
\* another session and misses none of its own.
C32_PayloadIsTheSessionsChunks ==
    \A i \in stopRequested :
        Finalized(i) => finalized[i].data = Delivered(i)

\* ------------------------------------------------- claims on loading
\* C33: whenever a mounted hook shows the status loading, a transport call is
\* outstanding,
\* dispatched and not yet settled.
C33_LoadingHasOutstandingCall ==
    (mounted /\ state = "loading") => Outstanding # {}

\* An audio submission is in flight and the status is loading.
C33_Witness ==
    /\ mounted
    /\ state = "loading"
    /\ Len(calls) = 1
    /\ calls[1].kind = "audio"
    /\ calls[1].st = "pending"

\* ------------------------------------------------ claims on recording
\* A recorder's finalize event is still to come.
FinalizePending == \E i \in Ids : recorders[i] = "stopping"

\* C34: whenever a mounted hook shows the status recording, a session is
\* capturing or the finalize event of a stopped one is still to come; the
\* status becomes recording only with a session capturing.
C34_RecordingHasSession ==
    /\ []((mounted /\ state = "recording") => (isRecording \/ FinalizePending))
    /\ [][(mounted' /\ state # "recording" /\ state' = "recording")
             => isRecording']_vars

\* --------------------------------------------- claims on reset and capture
\* C35: a session that reset() discarded, while it was capturing or after
\* stopRecording() and before its payload arrived, never has a transport
\* call, also when its finalize event fires after the reset.
C35_NoCallAfterReset ==
    \A i \in wasReset : CallsFor(i) = {}

\* ------------------------------------- claims on reset and the transport
\* C36: after a reset() issued while a transport call is outstanding, which
\* leaves the status idle with the call still in flight, the settlement of
\* that call changes neither the status nor lastResult nor lastError.
C36_SettlementAfterResetIsIgnored ==
    [][\A c \in DOMAIN calls :
          (state = "idle" /\ result = "null" /\ error = "null"
             /\ (Completes(c, "resolved") \/ Completes(c, "rejected")))
          => UNCHANGED <<state, result, error>>]_vars

\* ------------------------------------------- claims on reading the limiter
\* What a read of the limiter answers, with the timestamps it keeps.
Answer(s) ==
    <<s.canRequest, s.requestsRemaining, s.cooldownRemaining,
      s.requestTimestamps>>

\* C37: reading canRequest, requestsRemaining and cooldownRemaining again at
\* the same instant changes no answer and no outcome of a later
\* recordRequest(): the pruning done on a read removes exactly the timestamps
\* that are at least windowMs old and keeps every recorded one that is
\* inside the window.
C37_ReadsDoNotDisturb ==
    LET once == RenderLimiter(Cur)
        twice == RenderLimiter(once)
    IN  /\ Answer(twice) = Answer(once)
        /\ once.requestTimestamps =
               SelectSeq(recorded, LAMBDA t : now - t < cfg.windowMs)
        /\ Answer(SettleLimiter(twice, recordRequest(twice)))
               = Answer(SettleLimiter(Cur, recordRequest(Cur)))

\* A read is about to prune: one timestamp has left the window and another
\* is still inside it.
C37_Witness ==
    /\ \E k \in DOMAIN requestTimestamps :
           now - requestTimestamps[k] >= cfg.windowMs
    /\ \E k \in DOMAIN requestTimestamps :
           now - requestTimestamps[k] < cfg.windowMs

\* ------------------------------------------ claims on recorded requests
\* C38: every transport call is dispatched together with exactly one
\* recordRequest(), and nothing else records or gives back a request: in
\* every step the number of recorded requests grows by the number of calls
\* dispatched, except that reset() and an unmount empty the record and
\* dispatch nothing.
C38_OneRecordPerCall ==
    [][IF lastOp' = "reset" \/ (mounted /\ ~mounted')
       THEN recorded' = <<>> /\ calls' = calls
       ELSE Len(recorded') - Len(recorded) = Len(calls') - Len(calls)]_vars

\* One call was dispatched and has failed, and a startRecording() followed:
\* one request is recorded.
C38_Witness ==
    /\ lastOp = "startRecording"
    /\ Len(calls) = 1
    /\ calls[1].st = "rejected"
    /\ Len(recorded) = 1
    /\ wasReset = {}

\* ------------------------------------------------- claims on success
\* C39: whenever a mounted hook shows the status success, lastError is
\* empty, also when a capture error occurred while the transport call was
\* outstanding and the call then resolved.
C39_SuccessHasNoError ==
    (mounted /\ state = "success") => error = "null"

\* --------------------------------------------- claims on rate-limited
\* C40: in every state of a mounted hook whose status is idle or
\* rate-limited, the status is rate-limited exactly when canRequest is false;
\* rate-limited is entered only from idle: a step that ends in rate-limited
\* starts in idle or rate-limited, or is a cancelRecording(), which sets the
\* status to idle before the effect runs.
C40_RateLimitedIffDenied ==
    /\ []((mounted /\ state \in {"idle", "rate-limited"})
            => (state = "rate-limited" <=> ~canRequest))
    /\ [][(mounted' /\ state' = "rate-limited"
             /\ state \notin {"idle", "rate-limited"})
          => lastOp' = "cancelRecording"]_vars

\* cancelRecording() during the cooldown of an accepted submission: the
\* status went to idle and from there to rate-limited.
C40_Witness ==
    /\ mounted
    /\ lastOp = "cancelRecording"
    /\ state = "rate-limited"
    /\ ~canRequest
    /\ Len(calls) = 1

====
